---- MODULE Spec2Model ----
(***************************************************************************)
(* Model of server_config_model: the pydantic configuration schema, the    *)
(* JSON persistence of ~/aiofarm_config.json and the timestamped backup /  *)
(* rollback of the config file and the two manifest files.                 *)
(*                                                                         *)
(* Python values are records tagged by `cls`: an instance of a model class *)
(* carries the class name, a dict carries "dict" and only the keys that    *)
(* are present, None is [cls |-> "NoneType"].  An Enum member is the       *)
(* string "<Class>.<MEMBER>", its JSON form is the member's value.         *)
(***************************************************************************)
EXTENDS Integers, Sequences, FiniteSets, TLC

VARIABLES
    fs_config,            \* content of ~/aiofarm_config.json
    fs_readable,          \* open(path, "r") is permitted
    fs_writable,          \* open(path, "w") is permitted
    fs_manifest,          \* content of <cwd>/pyproject.toml and <cwd>/poetry.lock
    backup_dir,           \* ~/aiofarm_config_backup: [exists, files]
    now,                  \* the clock, in seconds
    DEFAULT_SERVER_ROOT,  \* the module-level RootConfig object
    held,                 \* the RootConfig reference the caller holds
    inp,                  \* the argument drawn for a constructor
    last                  \* the last call: its arguments, pre-state and outcome

vars == <<fs_config, fs_readable, fs_writable, fs_manifest, backup_dir, now,
          DEFAULT_SERVER_ROOT, held, inp, last>>

-----------------------------------------------------------------------------
(* Bounds of the model *)

\* pins are drawn from -MaxPin .. MaxPin
MaxPin == 45
\* longest inputs / outputs list of a drawn SerialConfig
MaxLen == 2
\* last second of the clock
MaxTime == 2

-----------------------------------------------------------------------------
(* Python values *)

PyNone == [cls |-> "NoneType"]

PyStr(s) == [cls |-> "str", v |-> s]

Get(d, k, default) == IF k \in DOMAIN d THEN d[k] ELSE default

Ok(v) == [ok |-> TRUE, v |-> v]

Raise == [ok |-> FALSE, v |-> PyNone]

\* bool(x) of the values a config payload can be
Truthy(x) ==
    CASE x.cls = "NoneType" -> FALSE
      [] x.cls = "dict"     -> DOMAIN x # {"cls"}
      [] x.cls = "int"      -> x.v # 0
      [] OTHER              -> TRUE

EncodingEnum ==
    [ASCII |-> "ascii", UTF8 |-> "utf-8", UTF16 |-> "utf-16",
     ISO88591 |-> "iso-8859-1", UTF32 |-> "utf-32"]

FormatEnum == [STX_ETX |-> "STX/ETX", CRLF |-> "CRLF", LF |-> "LF", CR |-> "CR"]

ComputerTypeEnum == [Vision |-> "vision", Server |-> "server"]

Member(enumName, m) == enumName \o "." \o m

Members(enumName, enum) == {Member(enumName, m) : m \in DOMAIN enum}

\* Enum(value): a member is kept, a member's value gives the member, else an error
ParseEnum(enumName, enum, x) ==
    IF x \in Members(enumName, enum) THEN Ok(x)
    ELSE IF \E m \in DOMAIN enum : enum[m] = x
         THEN Ok(Member(enumName, CHOOSE m \in DOMAIN enum : enum[m] = x))
         ELSE Raise

\* a dump that writes the member's name
EnumName(enumName, enum, x) ==
    IF \E m \in DOMAIN enum : Member(enumName, m) = x
    THEN CHOOSE m \in DOMAIN enum : Member(enumName, m) = x
    ELSE x

\* json.dump of a str-mixin Enum member writes the member's value
EnumValue(enumName, enum, x) ==
    IF \E m \in DOMAIN enum : Member(enumName, m) = x
    THEN enum[CHOOSE m \in DOMAIN enum : Member(enumName, m) = x]
    ELSE x

-----------------------------------------------------------------------------
(* The schema: construction and validation *)

\* a validator whose upper bound is off by one
check_pin_range_off_by_one(v) == 2 <= v /\ v <= 10

\* the pin validators: TRUE when the value is returned, FALSE when ValueError is raised
InputSerialConfigItem_check_pin_range(v) == 2 <= v /\ v <= 9

OutputSerialConfigItem_check_pin_range(v) == 30 <= v /\ v <= 37

\* InputSerialConfigItem(**d): the validator runs on a given pin only
InputSerialConfigItem(d) ==
    IF d.cls = "InputSerialConfigItem" THEN Ok(d)
    ELSE IF d.cls # "dict" THEN Raise
    ELSE IF "pin" \in DOMAIN d /\ ~InputSerialConfigItem_check_pin_range(d.pin) THEN Raise
    ELSE Ok([cls |-> "InputSerialConfigItem",
             port |-> Get(d, "port", "COM3"),
             baudrate |-> Get(d, "baudrate", 38400),
             pin |-> Get(d, "pin", 2),
             camera_delay |-> Get(d, "camera_delay", 10)])

OutputSerialConfigItem(d) ==
    IF d.cls = "OutputSerialConfigItem" THEN Ok(d)
    ELSE IF d.cls # "dict" THEN Raise
    ELSE IF "pin" \in DOMAIN d /\ ~OutputSerialConfigItem_check_pin_range(d.pin) THEN Raise
    ELSE Ok([cls |-> "OutputSerialConfigItem",
             port |-> Get(d, "port", "COM3"),
             baudrate |-> Get(d, "baudrate", 38400),
             offset |-> Get(d, "offset", 0),
             pin |-> Get(d, "pin", 30)])

\* List[InputSerialConfigItem]: every element validated in order, one failure
\* fails the list
InputItemList(xs) ==
    IF \A i \in 1..Len(xs) : InputSerialConfigItem(xs[i]).ok
    THEN Ok([i \in 1..Len(xs) |-> InputSerialConfigItem(xs[i]).v])
    ELSE Raise

\* List[OutputSerialConfigItem]
OutputItemList(xs) ==
    IF \A i \in 1..Len(xs) : OutputSerialConfigItem(xs[i]).ok
    THEN Ok([i \in 1..Len(xs) |-> OutputSerialConfigItem(xs[i]).v])
    ELSE Raise

OptionalStr(x) == IF x.cls \in {"NoneType", "str"} THEN Ok(x) ELSE Raise

DefaultInputs == <<InputSerialConfigItem([cls |-> "dict"]).v>>

DefaultOutputs == <<OutputSerialConfigItem([cls |-> "dict"]).v>>

SerialConfigOf(d, ins, outs, enc, fmt, mod) ==
    IF ins.ok /\ outs.ok /\ enc.ok /\ fmt.ok /\ mod.ok
    THEN Ok([cls |-> "SerialConfig",
             inputs |-> ins.v,
             outputs |-> outs.v,
             test_message_encode_type |-> enc.v,
             test_message_format_type |-> fmt.v,
             baudrate |-> Get(d, "baudrate", 38400),
             test_message_to_sorter |-> Get(d, "test_message_to_sorter", "0"),
             production_result_sender_module |-> mod.v,
             is_production_sketch_uploaded |-> Get(d, "is_production_sketch_uploaded", FALSE),
             is_read_configured |-> Get(d, "is_read_configured", FALSE),
             is_send_configured |-> Get(d, "is_send_configured", FALSE),
             signal_count_per_pulse |-> Get(d, "signal_count_per_pulse", 2)])
    ELSE Raise

SerialConfig(d) ==
    IF d.cls = "SerialConfig" THEN Ok(d)
    ELSE IF d.cls # "dict" THEN Raise
    ELSE SerialConfigOf(d,
             IF "inputs" \in DOMAIN d THEN InputItemList(d.inputs)
                                      ELSE Ok(DefaultInputs),
             IF "outputs" \in DOMAIN d THEN OutputItemList(d.outputs)
                                       ELSE Ok(DefaultOutputs),
             ParseEnum("EncodingEnum", EncodingEnum,
                       Get(d, "test_message_encode_type", "EncodingEnum.UTF8")),
             ParseEnum("FormatEnum", FormatEnum,
                       Get(d, "test_message_format_type", "FormatEnum.CRLF")),
             OptionalStr(Get(d, "production_result_sender_module", PyNone)))

ArduinoConfig(d) ==
    IF d.cls = "ArduinoConfig" THEN Ok(d)
    ELSE IF d.cls # "dict" THEN Raise
    ELSE Ok([cls |-> "ArduinoConfig",
             port |-> Get(d, "port", "COM3"),
             baudrate |-> Get(d, "baudrate", 38400),
             test_message |-> Get(d, "test_message", "test_message"),
             is_upload_port_assigned |-> Get(d, "is_upload_port_assigned", FALSE)])

ProgramConfig(d) ==
    IF d.cls = "ProgramConfig" THEN Ok(d)
    ELSE IF d.cls # "dict" THEN Raise
    ELSE Ok([cls |-> "ProgramConfig", line_count |-> Get(d, "line_count", 0)])

ServerConfigOf(d, prog, ard, ser) ==
    IF prog.ok /\ ard.ok /\ ser.ok
    THEN Ok([cls |-> "ServerConfig",
             program_check |-> Get(d, "program_check", FALSE),
             test_status |-> Get(d, "test_status", TRUE),
             program_config |-> prog.v,
             arduino_config |-> ard.v,
             serial_config |-> ser.v])
    ELSE Raise

\* ServerConfig(**d); as a field type, an instance is taken as it is
ServerConfig(d) ==
    IF d.cls = "ServerConfig" THEN Ok(d)
    ELSE IF d.cls # "dict" THEN Raise
    ELSE ServerConfigOf(d,
             ProgramConfig(Get(d, "program_config", [cls |-> "dict"])),
             ArduinoConfig(Get(d, "arduino_config", [cls |-> "dict"])),
             SerialConfig(Get(d, "serial_config", [cls |-> "dict"])))

\* VisionConfig(**d): no fields, extra keys are ignored
VisionConfig(d) == IF d.cls = "dict" THEN Ok([cls |-> "VisionConfig"]) ELSE Raise

\* the validator without its vision branch
validate_config_server_only(config, config_type) ==
    IF ~Truthy(config) THEN Ok(PyNone)
    ELSE IF config_type = "ComputerTypeEnum.Server"
         THEN IF config.cls = "dict" THEN ServerConfig(config)
              ELSE IF config.cls # "ServerConfig" THEN Raise
              ELSE Ok(config)
    ELSE Ok(config)

\* the "before" validator of RootConfig.config; config_type is None when that
\* field failed its own validation
validate_config(config, config_type) ==
    IF ~Truthy(config) THEN Ok(PyNone)
    ELSE IF config_type = "ComputerTypeEnum.Vision"
         THEN IF config.cls = "dict" THEN VisionConfig(config)
              ELSE IF config.cls # "VisionConfig" THEN Raise
              ELSE Ok(config)
    ELSE IF config_type = "ComputerTypeEnum.Server"
         THEN IF config.cls = "dict" THEN ServerConfig(config)
              ELSE IF config.cls # "ServerConfig" THEN Raise
              ELSE Ok(config)
    ELSE Ok(config)

\* the annotation Optional[Union[ServerConfig]]: None, a ServerConfig instance,
\* or a dict that validates as ServerConfig
OptionalServerConfig(x) ==
    IF x.cls = "NoneType" THEN Ok(x)
    ELSE IF x.cls \in {"ServerConfig", "dict"} THEN ServerConfig(x)
    ELSE Raise

\* the config field: the "before" validator, then the annotation
ConfigField(before) == IF ~before.ok THEN Raise ELSE OptionalServerConfig(before.v)

RootConfigOf(ct, cfg) ==
    IF ct.ok /\ cfg.ok
    THEN Ok([cls |-> "RootConfig", config_type |-> ct.v, config |-> cfg.v])
    ELSE Raise

\* fields in declaration order; a field that is not given takes its default
\* without validation
RootConfigFields(data, ct) ==
    RootConfigOf(ct,
        IF "config" \notin DOMAIN data THEN Ok(PyNone)
        ELSE ConfigField(validate_config(data.config, IF ct.ok THEN ct.v ELSE "None")))

\* RootConfig(**data) and RootConfig.model_validate(data)
RootConfig(data) ==
    IF data.cls = "RootConfig" THEN Ok(data)
    ELSE IF data.cls # "dict" THEN Raise
    ELSE RootConfigFields(data,
             IF "config_type" \in DOMAIN data
             THEN ParseEnum("ComputerTypeEnum", ComputerTypeEnum, data.config_type)
             ELSE Ok("ComputerTypeEnum.Vision"))

-----------------------------------------------------------------------------
(* Serialization *)

AsDict(obj) == [k \in DOMAIN obj |-> IF k = "cls" THEN "dict" ELSE obj[k]]

DumpList(xs) == [i \in 1..Len(xs) |-> AsDict(xs[i])]

DumpSerial(ser) ==
    [AsDict(ser) EXCEPT !.inputs = DumpList(ser.inputs), !.outputs = DumpList(ser.outputs)]

DumpServer(cfg) ==
    [AsDict(cfg) EXCEPT !.program_config = AsDict(cfg.program_config),
                        !.arduino_config = AsDict(cfg.arduino_config),
                        !.serial_config = DumpSerial(cfg.serial_config)]

\* root_config.model_dump(): nested dicts, Enum members and None kept
model_dump(root) ==
    [AsDict(root) EXCEPT !.config = IF root.config.cls = "NoneType" THEN PyNone
                                    ELSE DumpServer(root.config)]

\* json.dump(d, f, indent=4): the text of the file, held as the JSON document;
\* a str-mixin Enum member is written as its value, None as null
json_dump(d) ==
    LET payload == d.config
        ser == payload.serial_config
        jser == [ser EXCEPT
                   !.test_message_encode_type =
                       EnumValue("EncodingEnum", EncodingEnum, ser.test_message_encode_type),
                   !.test_message_format_type =
                       EnumValue("FormatEnum", FormatEnum, ser.test_message_format_type)]
    IN  [kind |-> "json",
         data |-> [d EXCEPT
                     !.config_type =
                         EnumValue("ComputerTypeEnum", ComputerTypeEnum, d.config_type),
                     !.config = IF payload.cls = "NoneType" THEN PyNone
                                ELSE [payload EXCEPT !.serial_config = jser]]]

Absent == [kind |-> "absent"]

Garbage == [kind |-> "garbage"]

\* open(path, "r") and json.load(f): the data, or an exception
json_load(content, readable) ==
    IF content.kind = "json" /\ readable THEN Ok(content.data) ELSE Raise

-----------------------------------------------------------------------------
(* The default tree *)

DefaultTree ==
    RootConfig(
        [cls |-> "dict",
         config_type |-> "ComputerTypeEnum.Server",
         config |-> ServerConfig(
             [cls |-> "dict",
              arduino_config |-> ArduinoConfig([cls |-> "dict", port |-> "COM3"]).v,
              serial_config |-> SerialConfig(
                  [cls |-> "dict",
                   inputs |-> <<InputSerialConfigItem([cls |-> "dict", port |-> "COM4"]).v>>,
                   outputs |-> <<OutputSerialConfigItem(
                                     [cls |-> "dict", port |-> "COM5", offset |-> 23]).v,
                                 OutputSerialConfigItem(
                                     [cls |-> "dict", port |-> "COM6", offset |-> 23]).v>>]).v
             ]).v]).v

\* the value DEFAULT_SERVER_ROOT is bound to when the module is imported
DEFAULT_SERVER_ROOT_initial == DefaultTree

\* the RootConfig load_config builds anew in its except branch
DEFAULT_CONFIG == DefaultTree

-----------------------------------------------------------------------------
(* The caller's objects *)

NoRef == [ref |-> "none"]

GlobalRef == [ref |-> "DEFAULT_SERVER_ROOT"]

OwnRef(obj) == [ref |-> "own", obj |-> obj]

Deref(h) == IF h.ref = "DEFAULT_SERVER_ROOT" THEN DEFAULT_SERVER_ROOT ELSE h.obj

\* in-place assignments a caller makes on an object it holds; the model classes
\* do not validate on assignment
Assignments == {"arduino_port", "output_pin", "output_offset"}

CanAssign(obj) ==
    /\ obj.config.cls = "ServerConfig"
    /\ Len(obj.config.serial_config.outputs) > 0

Assigned(obj, a) ==
    CASE a = "arduino_port" ->
             [obj EXCEPT !.config.arduino_config.port = "COM9"]
      [] a = "output_pin" ->
             [obj EXCEPT !.config.serial_config.outputs[1].pin = 40]
      [] a = "output_offset" ->
             [obj EXCEPT !.config.serial_config.outputs[1].offset = 5]

-----------------------------------------------------------------------------
(* Persistence *)

\* open, json.load and RootConfig(**data) / model_validate(data)
ParseData(data) == IF data.ok THEN RootConfig(data.v) ELSE Raise

ParseFile == ParseData(json_load(fs_config, fs_readable))

LoadResult(config) ==
    IF config.ok
    THEN [op |-> "load_config", raised |-> FALSE, fallback |-> FALSE, ret |-> config.v]
    ELSE [op |-> "load_config", raised |-> FALSE, fallback |-> TRUE, ret |-> DEFAULT_CONFIG]

\* load_config(): what it returns; it has no other effect
load_config_result == LoadResult(ParseFile)

load_config ==
    /\ last' = load_config_result
    /\ held' = OwnRef(last'.ret)
    /\ UNCHANGED <<fs_config, fs_readable, fs_writable, fs_manifest, backup_dir, now,
                   DEFAULT_SERVER_ROOT, inp>>

\* the try block of load_server_root_config: the RootConfig read, or an exception
TryServer(root_config) ==
    IF ~root_config.ok THEN Raise
    ELSE IF root_config.v.config.cls = "NoneType" THEN Raise
    ELSE IF ~ServerConfig(DumpServer(root_config.v.config)).ok THEN Raise
    ELSE root_config

load_server_try == TryServer(ParseFile)

\* the except branch binds root_config to the module-level object itself
AfterTry(tried) == IF tried.ok THEN OwnRef(tried.v) ELSE GlobalRef

Mismatch(obj) == obj.config_type # "ComputerTypeEnum.Server" \/ ~Truthy(obj.config)

\* whether the open(path, "w") of the self-healing branch raises
HealWriteFails == ~fs_writable

LoadServerWrite(root_config, is_wrong_process) ==
    IF is_wrong_process /\ HealWriteFails
    THEN /\ last' = [op |-> "load_server_root_config", raised |-> TRUE,
                     fallback |-> TRUE, ret |-> PyNone]
         /\ UNCHANGED <<fs_config, held>>
    ELSE /\ fs_config' = IF is_wrong_process
                         THEN json_dump(model_dump(Deref(root_config)))
                         ELSE fs_config
         /\ held' = root_config
         /\ last' = [op |-> "load_server_root_config", raised |-> FALSE,
                     fallback |-> is_wrong_process, ret |-> Deref(root_config)]

LoadServerCheck(root_config, failed) ==
    LoadServerWrite(IF Mismatch(Deref(root_config)) THEN GlobalRef ELSE root_config,
                    failed \/ Mismatch(Deref(root_config)))

LoadServerFrom(tried) == LoadServerCheck(AfterTry(tried), ~tried.ok)

load_server_root_config ==
    /\ LoadServerFrom(load_server_try)
    /\ UNCHANGED <<fs_readable, fs_writable, fs_manifest, backup_dir, now,
                   DEFAULT_SERVER_ROOT, inp>>

\* save_config that relies on model_validate alone, which takes an instance as it is
save_config_outcome_unvalidated(root_config) == IF ~fs_writable THEN "OSError" ELSE "ok"

\* save_config(root_config): "ok" when the file was written and None returned,
\* else the exception that leaves the function
save_config_outcome(root_config) ==
    IF ~RootConfig(model_dump(root_config)).ok THEN "ValidationError"
    ELSE IF ~fs_writable THEN "OSError"
    ELSE "ok"

SaveWrite(root_config, outcome) ==
    /\ fs_config' = IF outcome = "ok" THEN json_dump(model_dump(root_config))
                    ELSE fs_config
    /\ last' = [op |-> "save_config", raised |-> outcome # "ok", exc |-> outcome,
                arg |-> root_config, ret |-> PyNone]

save_config(root_config) == SaveWrite(root_config, save_config_outcome(root_config))

SaveHeld ==
    /\ held.ref # "none"
    /\ save_config(Deref(held))
    /\ UNCHANGED <<fs_readable, fs_writable, fs_manifest, backup_dir, now,
                   DEFAULT_SERVER_ROOT, held, inp>>

-----------------------------------------------------------------------------
(* The caller and the environment of the persistence functions *)

\* a RootConfig a caller constructs: a server tree that differs from the default
SampleServerRoot ==
    RootConfig(
        [cls |-> "dict",
         config_type |-> "server",
         config |-> [cls |-> "dict",
                     arduino_config |-> [cls |-> "dict", port |-> "COM7"],
                     serial_config |->
                         [cls |-> "dict",
                          outputs |-> <<[cls |-> "dict", port |-> "COM8", pin |-> 37]>>,
                          test_message_encode_type |-> "ascii",
                          production_result_sender_module |-> PyStr("sender")]]]).v

\* RootConfig(): the vision role without a payload
VisionRoot == RootConfig([cls |-> "dict"]).v

Constructed == {SampleServerRoot, VisionRoot}

\* {"config_type": "vision"}
VisionOnlyDoc == [kind |-> "json", data |-> [cls |-> "dict", config_type |-> "vision"]]

\* {"config_type": "server"}
ServerNoPayloadDoc == [kind |-> "json", data |-> [cls |-> "dict", config_type |-> "server"]]

\* a server config whose first output has pin 40
Pin40Doc ==
    [kind |-> "json",
     data |-> [cls |-> "dict",
               config_type |-> "server",
               config |-> [cls |-> "dict",
                           serial_config |->
                               [cls |-> "dict",
                                outputs |-> <<[cls |-> "dict", pin |-> 40]>>]]]]

\* valid JSON that is no object
ListDoc == [kind |-> "json", data |-> [cls |-> "list"]]

ValidServerDoc == json_dump(model_dump(SampleServerRoot))

ExternalContents ==
    {Absent, Garbage, ListDoc, VisionOnlyDoc, ServerNoPayloadDoc, Pin40Doc, ValidServerDoc}

Env == [op |-> "env"]

\* another program or the operator replaces or deletes the config file
ExternalWrite ==
    /\ \E c \in ExternalContents : fs_config' = c
    /\ last' = Env
    /\ UNCHANGED <<fs_readable, fs_writable, fs_manifest, backup_dir, now,
                   DEFAULT_SERVER_ROOT, held, inp>>

\* the permissions of the config path change
Chmod ==
    /\ \E r \in BOOLEAN, w \in BOOLEAN : fs_readable' = r /\ fs_writable' = w
    /\ last' = Env
    /\ UNCHANGED <<fs_config, fs_manifest, backup_dir, now, DEFAULT_SERVER_ROOT, held, inp>>

Construct ==
    /\ \E x \in Constructed : held' = OwnRef(x)
    /\ last' = [op |-> "construct"]
    /\ UNCHANGED <<fs_config, fs_readable, fs_writable, fs_manifest, backup_dir, now,
                   DEFAULT_SERVER_ROOT, inp>>

\* the caller assigns to a field of the object it holds
Assign ==
    /\ held.ref # "none"
    /\ CanAssign(Deref(held))
    /\ \E a \in Assignments :
          IF held.ref = "DEFAULT_SERVER_ROOT"
          THEN /\ DEFAULT_SERVER_ROOT' = Assigned(DEFAULT_SERVER_ROOT, a)
               /\ held' = held
          ELSE /\ held' = OwnRef(Assigned(held.obj, a))
               /\ DEFAULT_SERVER_ROOT' = DEFAULT_SERVER_ROOT
    /\ last' = [op |-> "assign"]
    /\ UNCHANGED <<fs_config, fs_readable, fs_writable, fs_manifest, backup_dir, now, inp>>

NoManifest == [f \in {"pyproject.toml", "poetry.lock"} |-> Absent]

EmptyBackupDir == [exists |-> FALSE, files |-> <<>>]

Init ==
    /\ fs_config = Absent
    /\ fs_readable = TRUE
    /\ fs_writable = TRUE
    /\ fs_manifest = NoManifest
    /\ backup_dir = EmptyBackupDir
    /\ now = 0
    /\ DEFAULT_SERVER_ROOT = DEFAULT_SERVER_ROOT_initial
    /\ held = NoRef
    /\ inp = PyNone
    /\ last = [op |-> "import"]

Next ==
    \/ load_config
    \/ load_server_root_config
    \/ SaveHeld
    \/ Construct
    \/ Assign
    \/ ExternalWrite
    \/ Chmod

Spec == Init /\ [][Next]_vars

-----------------------------------------------------------------------------
(* Constructions: the schema applied to drawn arguments *)

Pins == (0 - MaxPin)..MaxPin

\* InputSerialConfigItem(pin=p) and InputSerialConfigItem.model_validate({"pin": p})
InputItemCalls == {[fn |-> "InputSerialConfigItem", d |-> [cls |-> "dict", pin |-> p]] : p \in Pins}

OutputItemCalls == {[fn |-> "OutputSerialConfigItem", d |-> [cls |-> "dict", pin |-> p]] : p \in Pins}

ConfigTypeArgs == {"vision", "server", "ComputerTypeEnum.Vision", "ComputerTypeEnum.Server", "sorter"}

\* payloads given as config: None, dicts, instances, a value of another type
ConfigArgs ==
    {PyNone,
     [cls |-> "dict"],
     [cls |-> "dict", program_check |-> TRUE],
     [cls |-> "dict", extra_key |-> 1],
     Pin40Doc.data.config,
     ValidServerDoc.data.config,
     SampleServerRoot.config,
     [cls |-> "VisionConfig"],
     [cls |-> "int", v |-> 5]}

RootConfigCalls ==
    {[fn |-> "RootConfig", d |-> [cls |-> "dict", config_type |-> t, config |-> c]] :
        t \in ConfigTypeArgs, c \in ConfigArgs}
    \cup {[fn |-> "RootConfig", d |-> [cls |-> "dict", config_type |-> t]] : t \in ConfigTypeArgs}
    \cup {[fn |-> "RootConfig", d |-> [cls |-> "dict", config |-> c]] : c \in ConfigArgs}

Called(fn, arg, result) ==
    [op |-> fn, arg |-> arg, raised |-> ~result.ok, ret |-> result.v]

ConstructInputItem ==
    /\ inp.cls = "call" /\ inp.call.fn = "InputSerialConfigItem"
    /\ last' = Called("InputSerialConfigItem", inp.call.d, InputSerialConfigItem(inp.call.d))
    /\ UNCHANGED <<fs_config, fs_readable, fs_writable, fs_manifest, backup_dir, now,
                   DEFAULT_SERVER_ROOT, held, inp>>

ConstructOutputItem ==
    /\ inp.cls = "call" /\ inp.call.fn = "OutputSerialConfigItem"
    /\ last' = Called("OutputSerialConfigItem", inp.call.d, OutputSerialConfigItem(inp.call.d))
    /\ UNCHANGED <<fs_config, fs_readable, fs_writable, fs_manifest, backup_dir, now,
                   DEFAULT_SERVER_ROOT, held, inp>>

ConstructRootConfig ==
    /\ inp.cls = "call" /\ inp.call.fn = "RootConfig"
    /\ last' = Called("RootConfig", inp.call.d, RootConfig(inp.call.d))
    /\ UNCHANGED <<fs_config, fs_readable, fs_writable, fs_manifest, backup_dir, now,
                   DEFAULT_SERVER_ROOT, held, inp>>

InitValidate ==
    /\ fs_config = Absent
    /\ fs_readable = TRUE
    /\ fs_writable = TRUE
    /\ fs_manifest = NoManifest
    /\ backup_dir = EmptyBackupDir
    /\ now = 0
    /\ DEFAULT_SERVER_ROOT = DEFAULT_SERVER_ROOT_initial
    /\ held = NoRef
    /\ \E c \in InputItemCalls \cup OutputItemCalls \cup RootConfigCalls :
          inp = [cls |-> "call", call |-> c]
    /\ last = [op |-> "import"]

NextValidate ==
    \/ ConstructInputItem
    \/ ConstructOutputItem
    \/ ConstructRootConfig

SpecValidate == InitValidate /\ [][NextValidate]_vars

-----------------------------------------------------------------------------
(* Round trips: a valid tree is saved, loaded, and the loaded value saved *)

SeqsUpTo(S, n) == UNION {[1..k -> S] : k \in 0..n}

InputDicts == {[cls |-> "dict", port |-> "COM4", pin |-> p, camera_delay |-> 7] : p \in {2, 9}}

OutputDicts == {[cls |-> "dict", port |-> "COM5", offset |-> 23, pin |-> p] : p \in {30, 37}}

ModuleNames == {PyNone, PyStr("sender")}

ServerDicts ==
    {[cls |-> "dict",
      test_status |-> FALSE,
      program_config |-> [cls |-> "dict", line_count |-> 3],
      serial_config |-> [cls |-> "dict",
                         inputs |-> ins,
                         outputs |-> outs,
                         test_message_encode_type |-> e,
                         test_message_format_type |-> f,
                         production_result_sender_module |-> m]] :
        ins \in SeqsUpTo(InputDicts, MaxLen), outs \in SeqsUpTo(OutputDicts, MaxLen),
        e \in Members("EncodingEnum", EncodingEnum), f \in Members("FormatEnum", FormatEnum),
        m \in ModuleNames}

\* the valid RootConfig values that are saved
ValidRoots ==
    {RootConfig([cls |-> "dict", config_type |-> "ComputerTypeEnum.Server", config |-> c]).v :
        c \in ServerDicts}
    \cup {RootConfig([cls |-> "dict", config_type |-> t]).v :
             t \in Members("ComputerTypeEnum", ComputerTypeEnum)}

SaveDrawn ==
    /\ inp.cls = "RootConfig"
    /\ save_config(inp)
    /\ UNCHANGED <<fs_readable, fs_writable, fs_manifest, backup_dir, now,
                   DEFAULT_SERVER_ROOT, held, inp>>

InitRoundTrip ==
    /\ fs_config = Absent
    /\ fs_readable = TRUE
    /\ fs_writable = TRUE
    /\ fs_manifest = NoManifest
    /\ backup_dir = EmptyBackupDir
    /\ now = 0
    /\ DEFAULT_SERVER_ROOT = DEFAULT_SERVER_ROOT_initial
    /\ held = NoRef
    /\ inp \in ValidRoots
    /\ last = [op |-> "import"]

NextRoundTrip ==
    \/ SaveDrawn
    \/ load_config
    \/ SaveHeld

SpecRoundTrip == InitRoundTrip /\ [][NextRoundTrip]_vars

-----------------------------------------------------------------------------
(* Backup and rollback *)

(* A file name is the sequence of its pieces, the separators "_" and "."     *)
(* being pieces of their own: "aiofarm_config.json" is                       *)
(* <<"aiofarm", "_", "config", ".", "json">>.                                *)

Digits == <<"0", "1", "2", "3", "4", "5", "6", "7", "8", "9">>

\* datetime.now().strftime("%Y%m%d-%H%M%S") at second t of the run
strftime(t) == "20240101-1200" \o Digits[(t \div 10) + 1] \o Digits[(t % 10) + 1]

Timestamps == {strftime(t) : t \in 0..MaxTime}

Positions(name, sep) == {i \in 1..Len(name) : name[i] = sep}

Min(S) == CHOOSE i \in S : \A j \in S : i <= j

Max(S) == CHOOSE i \in S : \A j \in S : j <= i

\* len(name.split(sep))
PartCount(name, sep) == Cardinality(Positions(name, sep)) + 1

\* name.split(sep)[0]
FirstPart(name, sep) ==
    IF Positions(name, sep) = {} THEN name
    ELSE SubSeq(name, 1, Min(Positions(name, sep)) - 1)

\* name.split(sep)[-1]
LastPart(name, sep) ==
    IF Positions(name, sep) = {} THEN name
    ELSE SubSeq(name, Max(Positions(name, sep)) + 1, Len(name))

\* what follows the first sep
AfterFirst(name, sep) == SubSeq(name, Min(Positions(name, sep)) + 1, Len(name))

\* name.split(sep)[1]
SecondPart(name, sep) == FirstPart(AfterFirst(name, sep), sep)

\* name.startswith(prefix)
StartsWith(name, prefix) ==
    Len(name) >= Len(prefix) /\ SubSeq(name, 1, Len(prefix)) = prefix

ConfigName == <<"aiofarm", "_", "config", ".", "json">>

PyprojectName == <<"pyproject", ".", "toml">>

LockName == <<"poetry", ".", "lock">>

Exists(content) == content.kind # "absent"

Put(files, name, content) ==
    [n \in DOMAIN files \cup {name} |-> IF n = name THEN content ELSE files[n]]

\* backup_file without its os.path.exists test
backup_file_unchecked(files, source, backup_name) == Put(files, backup_name, source)

\* the inner backup_file(source_file, backup_file) of backup_config
backup_file(files, source, backup_name) ==
    IF Exists(source) THEN Put(files, backup_name, source) ELSE files

\* f"{name.split('.')[0]}_{timestamp}.{name.split('.')[1]}"
backup_file_name(name, timestamp) ==
    FirstPart(name, ".") \o <<"_", timestamp, ".">> \o SecondPart(name, ".")

\* the dict files_to_backup, in its order
backup_all(files, timestamp) ==
    backup_file(
        backup_file(
            backup_file(files, fs_config, backup_file_name(ConfigName, timestamp)),
            fs_manifest["pyproject.toml"], backup_file_name(PyprojectName, timestamp)),
        fs_manifest["poetry.lock"], backup_file_name(LockName, timestamp))

backup_config ==
    /\ backup_dir' = [exists |-> TRUE, files |-> backup_all(backup_dir.files, strftime(now))]
    /\ last' = [op |-> "backup_config", raised |-> FALSE, ts |-> strftime(now),
                was |-> backup_dir]
    /\ UNCHANGED <<fs_config, fs_readable, fs_writable, fs_manifest, now,
                   DEFAULT_SERVER_ROOT, held, inp>>

\* one turn of the loop of rollback_config
rollback_file(files, original_file, backup_name) ==
    IF backup_name \in DOMAIN files
    THEN Put(files, original_file, files[backup_name])
    ELSE files

\* the dict files_to_rollback, in its order: each target is
\* os.path.join(backup_dir, original_file)
rollback_all(files, timestamp) ==
    rollback_file(
        rollback_file(
            rollback_file(files, ConfigName,
                          <<"aiofarm", "_", "config", "_", timestamp, ".", "json">>),
            PyprojectName, <<"pyproject", "_", timestamp, ".", "toml">>),
        LockName, <<"poetry", "_", timestamp, ".", "lock">>)

rollback_config(timestamp) ==
    /\ backup_dir' = [backup_dir EXCEPT !.files = rollback_all(backup_dir.files, timestamp)]
    /\ last' = [op |-> "rollback_config", raised |-> FALSE, ts |-> timestamp]
    /\ UNCHANGED <<fs_config, fs_readable, fs_writable, fs_manifest, now,
                   DEFAULT_SERVER_ROOT, held, inp>>

Rollback == \E timestamp \in Timestamps : rollback_config(timestamp)

\* the prefix test without its trailing underscore
IsConfigBackup_short_prefix(filename) ==
    StartsWith(filename, <<"aiofarm", "_", "config">>) /\ PartCount(filename, "_") > 1

\* the names list_unique_timestamps takes a timestamp from
IsConfigBackup(filename) ==
    StartsWith(filename, <<"aiofarm", "_", "config", "_">>) /\ PartCount(filename, "_") > 1

\* parts[-1].split(".")[0]
ExtractTimestamp(filename) == FirstPart(LastPart(filename, "_"), ".")

unique_timestamps(files) ==
    {ExtractTimestamp(filename) : filename \in {n \in DOMAIN files : IsConfigBackup(n)}}

\* the order of str on the strings the model holds: timestamps of one width
\* by their digits, before any string that starts with a letter
Rank(text) ==
    IF Len(text) = 1 /\ text[1] \in Timestamps
    THEN CHOOSE t \in 0..MaxTime : strftime(t) = text[1]
    ELSE MaxTime + 1

\* sorted(timestamps)
sorted(S) ==
    CHOOSE q \in [1..Cardinality(S) -> S] :
        /\ \A x \in S : \E i \in 1..Cardinality(S) : q[i] = x
        /\ \A i \in 1..Cardinality(S), j \in 1..Cardinality(S) :
              i < j => Rank(q[i]) <= Rank(q[j])

\* os.listdir raises FileNotFoundError when the directory does not exist
list_unique_timestamps ==
    /\ last' = IF backup_dir.exists
               THEN [op |-> "list_unique_timestamps", raised |-> FALSE,
                     ret |-> sorted(unique_timestamps(backup_dir.files))]
               ELSE [op |-> "list_unique_timestamps", raised |-> TRUE, ret |-> <<>>]
    /\ UNCHANGED <<fs_config, fs_readable, fs_writable, fs_manifest, backup_dir, now,
                   DEFAULT_SERVER_ROOT, held, inp>>

\* a second passes
Tick ==
    /\ now < MaxTime
    /\ now' = now + 1
    /\ last' = Env
    /\ UNCHANGED <<fs_config, fs_readable, fs_writable, fs_manifest, backup_dir,
                   DEFAULT_SERVER_ROOT, held, inp>>

\* the manifest files of the working directory, as the program finds them
Manifests ==
    [{"pyproject.toml", "poetry.lock"} -> {Absent, [kind |-> "bytes", of |-> "manifest"]}]

\* the config file is written by save_config, or deleted
SaveConstructed ==
    /\ \E x \in Constructed : save_config(x)
    /\ UNCHANGED <<fs_readable, fs_writable, fs_manifest, backup_dir, now,
                   DEFAULT_SERVER_ROOT, held, inp>>

RemoveConfig ==
    /\ fs_config' = Absent
    /\ last' = Env
    /\ UNCHANGED <<fs_readable, fs_writable, fs_manifest, backup_dir, now,
                   DEFAULT_SERVER_ROOT, held, inp>>

InitBackup ==
    /\ fs_config = Absent
    /\ fs_readable = TRUE
    /\ fs_writable = TRUE
    /\ fs_manifest \in Manifests
    /\ backup_dir = EmptyBackupDir
    /\ now = 0
    /\ DEFAULT_SERVER_ROOT = DEFAULT_SERVER_ROOT_initial
    /\ held = NoRef
    /\ inp = PyNone
    /\ last = [op |-> "import"]

NextBackup ==
    \/ backup_config
    \/ Rollback
    \/ list_unique_timestamps
    \/ SaveConstructed
    \/ RemoveConfig
    \/ Tick

SpecBackup == InitBackup /\ [][NextBackup]_vars

-----------------------------------------------------------------------------
(* Properties of the schema *)

InInputRange(p) == p \in 2..9

InOutputRange(p) == p \in 30..37

\* C10: an InputSerialConfigItem with pin p is accepted iff 2 <= p <= 9, an
\* OutputSerialConfigItem iff 30 <= p <= 37; an accepted item keeps the pin it
\* was given, and no pin is accepted by both.
C10_PinRangesRejectNotClamp ==
    /\ last.op = "InputSerialConfigItem" =>
          /\ ~last.raised <=> InInputRange(last.arg.pin)
          /\ ~last.raised => last.ret.pin = last.arg.pin
    /\ last.op = "OutputSerialConfigItem" =>
          /\ ~last.raised <=> InOutputRange(last.arg.pin)
          /\ ~last.raised => last.ret.pin = last.arg.pin
    /\ last.op \in {"InputSerialConfigItem", "OutputSerialConfigItem"} /\ ~last.raised =>
          ~(InputSerialConfigItem(last.arg).ok /\ OutputSerialConfigItem(last.arg).ok)

\* an input pin just above the range was given and the construction was rejected
C10_Witness ==
    last.op = "InputSerialConfigItem" /\ last.arg.pin = 10 /\ last.raised

PayloadGiven(arg) == "config" \in DOMAIN arg /\ Truthy(arg.config)

-----------------------------------------------------------------------------
(* Properties of the persistence functions *)

Loads == {"load_config", "load_server_root_config"}

\* C2 as stated: load_config and load_server_root_config never raise and return
\* a RootConfig, whatever the state of the config file.
C2_LoadsNeverRaise ==
    last.op \in Loads => ~last.raised /\ last.ret.cls = "RootConfig"

PinsOf(items) == {items[i].pin : i \in 1..Len(items)}

\* a tree that RootConfig accepts: the payload agrees with the role and every
\* pin is in its range
TreeIsValid(obj) ==
    \/ obj.config.cls = "NoneType"
    \/ /\ obj.config.cls = "ServerConfig"
       /\ obj.config_type = "ComputerTypeEnum.Server"
       /\ \A p \in PinsOf(obj.config.serial_config.inputs) : InInputRange(p)
       /\ \A p \in PinsOf(obj.config.serial_config.outputs) : InOutputRange(p)

\* C3 as stated: save_config never raises.
C3_SaveNeverRaises == last.op = "save_config" => ~last.raised

\* C3 amended: save_config re-validates the tree and then either overwrites the
\* file with it and returns None, or raises and leaves the file as it was: a
\* validation error when the tree is invalid, else an OSError when the file
\* cannot be opened for writing.
C3_SaveWritesOrRaises ==
    [][last'.op = "save_config" =>
          IF ~TreeIsValid(last'.arg)
          THEN last'.raised /\ last'.exc = "ValidationError" /\ fs_config' = fs_config
          ELSE IF ~fs_writable
          THEN last'.raised /\ last'.exc = "OSError" /\ fs_config' = fs_config
          ELSE /\ ~last'.raised /\ last'.ret = PyNone
               /\ fs_config'.kind = "json"
               /\ RootConfig(fs_config'.data) = Ok(last'.arg)]_vars

\* a tree whose output pin was set to 40 after construction was given to
\* save_config, which raised the validation error
C3_Witness ==
    /\ last.op = "save_config" /\ last.raised /\ last.exc = "ValidationError"
    /\ 40 \in PinsOf(last.arg.config.serial_config.outputs)

DocPinsOk(cfg) ==
    \/ "serial_config" \notin DOMAIN cfg
    \/ /\ \/ "inputs" \notin DOMAIN cfg.serial_config
          \/ \A i \in 1..Len(cfg.serial_config.inputs) :
                InInputRange(Get(cfg.serial_config.inputs[i], "pin", 2))
       /\ \/ "outputs" \notin DOMAIN cfg.serial_config
          \/ \A i \in 1..Len(cfg.serial_config.outputs) :
                InOutputRange(Get(cfg.serial_config.outputs[i], "pin", 30))

\* the file can be read and holds a valid config of role server with a payload
HoldsServerConfig(content, readable) ==
    /\ readable
    /\ content.kind = "json"
    /\ content.data.cls = "dict"
    /\ "config_type" \in DOMAIN content.data /\ content.data.config_type = "server"
    /\ "config" \in DOMAIN content.data /\ Truthy(content.data.config)
    /\ DocPinsOk(content.data.config)

\* the hard-coded default tree, field by field
IsHardCodedDefault(r) ==
    /\ r.cls = "RootConfig"
    /\ r.config_type = "ComputerTypeEnum.Server"
    /\ r.config.cls = "ServerConfig"
    /\ r.config.arduino_config.port = "COM3"
    /\ Len(r.config.serial_config.inputs) = 1
    /\ r.config.serial_config.inputs[1].port = "COM4"
    /\ r.config.serial_config.inputs[1].pin = 2
    /\ Len(r.config.serial_config.outputs) = 2
    /\ r.config.serial_config.outputs[1].port = "COM5"
    /\ r.config.serial_config.outputs[2].port = "COM6"
    /\ \A i \in 1..2 : /\ r.config.serial_config.outputs[i].offset = 23
                        /\ r.config.serial_config.outputs[i].pin = 30

\* C4 as stated: load_config never changes the file; load_server_root_config
\* leaves a file that holds a valid server config unchanged and returns that
\* config, and in every other case returns the default server RootConfig and
\* leaves the file holding it.
C4_LoadWritesOnlyToHeal ==
    [][/\ last'.op = "load_config" => fs_config' = fs_config
       /\ last'.op = "load_server_root_config" =>
             IF HoldsServerConfig(fs_config, fs_readable)
             THEN /\ fs_config' = fs_config
                  /\ ~last'.raised
                  /\ Ok(last'.ret) = RootConfig(fs_config.data)
             ELSE /\ ~last'.raised
                  /\ IsHardCodedDefault(last'.ret)
                  /\ fs_config'.kind = "json"
                  /\ RootConfig(fs_config'.data) = Ok(last'.ret)]_vars

\* C5 as stated: every load that falls back returns the hard-coded default tree.
C5_FallbackIsHardCodedDefault ==
    last.op \in Loads /\ last.fallback /\ ~last.raised => IsHardCodedDefault(last.ret)

\* C7: load_config after save_config(X) returns a value equal to X in every
\* field, and saving the loaded value leaves the file as it is.
C7_RoundTrip ==
    [][/\ last.op = "save_config" /\ ~last.raised /\ last'.op = "load_config" =>
             ~last'.fallback /\ last'.ret = last.arg
       /\ last.op = "load_config" /\ ~last.fallback
             /\ last'.op = "save_config" /\ last'.arg = last.ret =>
             ~last'.raised /\ fs_config' = fs_config]_vars

\* the value loaded after save_config(X) was saved again: X has two inputs and
\* two outputs, a module name and enum fields that are not the defaults
C7_Witness ==
    /\ last.op = "save_config" /\ ~last.raised
    /\ held = OwnRef(inp) /\ last.arg = inp
    /\ inp.config.cls = "ServerConfig"
    /\ Len(inp.config.serial_config.inputs) = 2
    /\ Len(inp.config.serial_config.outputs) = 2
    /\ inp.config.serial_config.production_result_sender_module = PyStr("sender")
    /\ inp.config.serial_config.test_message_encode_type = "EncodingEnum.UTF32"
    /\ inp.config.serial_config.test_message_format_type = "FormatEnum.STX_ETX"

-----------------------------------------------------------------------------
(* Properties of backup and rollback *)

ConfigSnapshot(ts) == <<"aiofarm", "_", "config", "_", ts, ".", "json">>

PyprojectSnapshot(ts) == <<"pyproject", "_", ts, ".", "toml">>

LockSnapshot(ts) == <<"poetry", "_", ts, ".", "lock">>

Snapshots(ts) == {ConfigSnapshot(ts), PyprojectSnapshot(ts), LockSnapshot(ts)}

\* a live file after rollback: the snapshot's content if there is a snapshot,
\* else what it was
Restored(after, before, files, snapshot) ==
    IF snapshot \in DOMAIN files THEN after = files[snapshot] ELSE after = before

\* C1 as stated: rollback_config(t) does not raise and leaves each live tracked
\* file with the content of its snapshot at t, or unchanged if there is none.
C1_RollbackRestoresLiveFiles ==
    [][last'.op = "rollback_config" =>
          /\ ~last'.raised
          /\ Restored(fs_config', fs_config, backup_dir.files, ConfigSnapshot(last'.ts))
          /\ Restored(fs_manifest'["pyproject.toml"], fs_manifest["pyproject.toml"],
                      backup_dir.files, PyprojectSnapshot(last'.ts))
          /\ Restored(fs_manifest'["poetry.lock"], fs_manifest["poetry.lock"],
                      backup_dir.files, LockSnapshot(last'.ts))]_vars

\* a source after backup: copied under its snapshot name if it exists, else
\* the snapshot name is as it was
Copied(source, before, after, snapshot) ==
    IF Exists(source)
    THEN snapshot \in DOMAIN after /\ after[snapshot] = source
    ELSE /\ snapshot \in DOMAIN after <=> snapshot \in DOMAIN before
         /\ snapshot \in DOMAIN before => after[snapshot] = before[snapshot]

ConfigTimestamps == {ts \in Timestamps : ConfigSnapshot(ts) \in DOMAIN backup_dir.files}

Listed(ret) == {ret[i] : i \in 1..Len(ret)}

Ascending(ret) ==
    \A i \in 1..Len(ret), j \in 1..Len(ret) :
        i < j => \E t \in 0..MaxTime, u \in 0..MaxTime :
                    t < u /\ ret[i] = <<strftime(t)>> /\ ret[j] = <<strftime(u)>>

ExactlyConfigTimestamps(ret) ==
    /\ Listed(ret) = {<<ts>> : ts \in ConfigTimestamps}
    /\ Len(ret) = Cardinality(ConfigTimestamps)
    /\ Ascending(ret)

\* C9 as stated: after any sequence of backup and rollback calls,
\* list_unique_timestamps returns exactly the timestamps of the config
\* snapshots, without duplicates, in ascending order.
C9_ListsConfigTimestamps ==
    last.op = "list_unique_timestamps" =>
        ~last.raised /\ ExactlyConfigTimestamps(last.ret)

\* C9 amended: the same, once the backup directory exists; while it does not
\* exist the call raises.
C9_ListsConfigTimestampsOfExistingDir ==
    last.op = "list_unique_timestamps" =>
        IF backup_dir.exists
        THEN ~last.raised /\ ExactlyConfigTimestamps(last.ret)
        ELSE last.raised

\* two timestamps are listed while the directory also holds the file a rollback
\* wrote and a manifest snapshot of a timestamp that has no config snapshot
C9_Witness ==
    /\ last.op = "list_unique_timestamps" /\ ~last.raised
    /\ Len(last.ret) >= 2
    /\ ConfigName \in DOMAIN backup_dir.files
    /\ \E ts \in Timestamps :
          /\ PyprojectSnapshot(ts) \in DOMAIN backup_dir.files
          /\ ConfigSnapshot(ts) \notin DOMAIN backup_dir.files

====
